---- MODULE Spec2Model ----
(***************************************************************************)
(* A model of json_navigator.py: the in-memory JSON document, the lazily   *)
(* populated tree of NodeMeta nodes that mirrors it, and the leaf          *)
(* operations (display, Base64 decode/replace, edit) that write into it.   *)
(*                                                                         *)
(* Text is a sequence of Unicode code points, bytes are a sequence of      *)
(* 0..255.  A JSON value is a tagged record [t, v]:                        *)
(*   "null" (v = 0), "bool" (v a BOOLEAN), "num" (v an integer),           *)
(*   "str" (v a text), "list" (v a sequence of values),                    *)
(*   "dict" (v a function from key texts to values).                       *)
(* A path step is a tagged record too: a string key or an integer index.   *)
(***************************************************************************)
EXTENDS Integers, Sequences, FiniteSets, TLC

(* ---------------------------------------------------------------------- *)
(* JSON values (JSONType) and path steps (Path)                           *)
(* ---------------------------------------------------------------------- *)

JNull == [t |-> "null", v |-> 0]

JBool(b) == [t |-> "bool", v |-> b]

JNum(n) == [t |-> "num", v |-> n]

JStr(s) == [t |-> "str", v |-> s]

JList(s) == [t |-> "list", v |-> s]

JDict(f) == [t |-> "dict", v |-> f]

Key(s) == [k |-> "key", s |-> s, i |-> 0]

Idx(i) == [k |-> "idx", s |-> <<>>, i |-> i]

\* is_leaf(value): not isinstance(value, (dict, list))
is_leaf(value) == value.t \notin {"dict", "list"}

\* The kind NodeMeta records for a value: 'dict' | 'list' | 'leaf'.
KindOf(value) == IF value.t = "dict" THEN "dict"
                 ELSE IF value.t = "list" THEN "list" ELSE "leaf"

\* The result of an expression that may raise: err = "none" and the value,
\* or the name of the exception raised.
Ok(val) == [err |-> "none", val |-> val]

Raise(e) == [err |-> e, val |-> JNull]

\* cur[p] for one step p, as Python evaluates it on each type of cur.
Subscript(cur, p) ==
  IF cur.t = "dict" THEN
    IF p.k = "key" /\ p.s \in DOMAIN cur.v THEN Ok(cur.v[p.s]) ELSE Raise("KeyError")
  ELSE IF cur.t = "list" THEN
    IF p.k = "key" THEN Raise("TypeError")
    ELSE IF p.i >= 0 /\ p.i < Len(cur.v) THEN Ok(cur.v[p.i + 1])
    ELSE IF p.i < 0 /\ p.i >= -Len(cur.v) THEN Ok(cur.v[Len(cur.v) + p.i + 1])
    ELSE Raise("IndexError")
  ELSE IF cur.t = "str" THEN
    IF p.k = "key" THEN Raise("TypeError")
    ELSE IF p.i >= 0 /\ p.i < Len(cur.v) THEN Ok(JStr(<<cur.v[p.i + 1]>>))
    ELSE IF p.i < 0 /\ p.i >= -Len(cur.v) THEN Ok(JStr(<<cur.v[Len(cur.v) + p.i + 1]>>))
    ELSE Raise("IndexError")
  ELSE Raise("TypeError")

RECURSIVE get_by_path(_, _)
\* get_by_path(data, path): cur = data; for p in path: cur = cur[p]
get_by_path(data, path) ==
  IF path = <<>> THEN Ok(data)
  ELSE LET r == Subscript(data, Head(path))
       IN IF r.err /= "none" THEN r ELSE get_by_path(r.val, Tail(path))

\* parent.insert(p, new_value) on a list where the code assigns
\* parent[p] = new_value.
AssignItem_insert(parent, p, new_value) ==
  IF parent.t = "dict" THEN
    IF p.k = "key"
    THEN Ok(JDict([x \in DOMAIN parent.v \cup {p.s} |->
                     IF x = p.s THEN new_value ELSE parent.v[x]]))
    ELSE Raise("NonJsonKey")
  ELSE IF parent.t = "list" THEN
    IF p.k = "key" THEN Raise("TypeError")
    ELSE IF p.i >= 0 /\ p.i < Len(parent.v)
      THEN Ok(JList(SubSeq(parent.v, 1, p.i) \o <<new_value>>
                    \o SubSeq(parent.v, p.i + 1, Len(parent.v))))
    ELSE Raise("IndexError")
  ELSE Raise("TypeError")

\* parent[p] = new_value for one step p: the new parent, or the exception.
\* (An integer step on a dict would add an integer key, which no JSON
\* document has; the model's documents never meet it and it is reported
\* as "NonJsonKey".)
AssignItem(parent, p, new_value) ==
  IF parent.t = "dict" THEN
    IF p.k = "key"
    THEN Ok(JDict([x \in DOMAIN parent.v \cup {p.s} |->
                     IF x = p.s THEN new_value ELSE parent.v[x]]))
    ELSE Raise("NonJsonKey")
  ELSE IF parent.t = "list" THEN
    IF p.k = "key" THEN Raise("TypeError")
    ELSE IF p.i >= 0 /\ p.i < Len(parent.v)
      THEN Ok(JList([parent.v EXCEPT ![p.i + 1] = new_value]))
    ELSE IF p.i < 0 /\ p.i >= -Len(parent.v)
      THEN Ok(JList([parent.v EXCEPT ![Len(parent.v) + p.i + 1] = new_value]))
    ELSE Raise("IndexError")
  ELSE Raise("TypeError")

Front(s) == SubSeq(s, 1, Len(s) - 1)

Last(s) == s[Len(s)]

RECURSIVE Rebuild(_, _, _)
\* The document after the container at `path` (reached through dicts and
\* lists only) has been mutated in place into `newc`.
Rebuild(data, path, newc) ==
  IF path = <<>> THEN newc
  ELSE LET p == Head(path)
           child == Subscript(data, p).val
       IN AssignItem(data, p, Rebuild(child, Tail(path), newc)).val

\* A write that empties the parent before it assigns: the parent is left
\* holding the new item alone.
SetItem_alone(data, path, parent, new_value) ==
  IF parent.err /= "none" THEN [err |-> parent.err, data |-> data]
  ELSE IF AssignItem(parent.val, Last(path), new_value).err /= "none"
    THEN [err |-> AssignItem(parent.val, Last(path), new_value).err, data |-> data]
  ELSE [err |-> "none",
        data |-> Rebuild(data, Front(path),
                         IF parent.val.t = "dict"
                         THEN JDict(Last(path).s :> new_value)
                         ELSE JList(<<new_value>>))]

\* lines 92-93: parent = get_by_path(data, path[:-1]); parent[path[-1]] = new_value
SetItem(data, path, parent, new_value) ==
  IF parent.err /= "none" THEN [err |-> parent.err, data |-> data]
  ELSE IF AssignItem(parent.val, Last(path), new_value).err /= "none"
    THEN [err |-> AssignItem(parent.val, Last(path), new_value).err, data |-> data]
  ELSE [err |-> "none",
        data |-> Rebuild(data, Front(path),
                         AssignItem(parent.val, Last(path), new_value).val)]

\* set_by_path without its guard: an empty path replaces the document.
set_by_path_unguarded(data, path, new_value) ==
  IF path = <<>> THEN [err |-> "none", data |-> new_value]
  ELSE SetItem(data, path, get_by_path(data, Front(path)), new_value)

\* set_by_path(data, path, new_value): the exception raised ("none" when it
\* returns) and the document afterwards.
set_by_path(data, path, new_value) ==
  IF path = <<>> THEN [err |-> "ValueError", data |-> data]
  ELSE SetItem(data, path, get_by_path(data, Front(path)), new_value)

(* ---------------------------------------------------------------------- *)
(* hexdump(b, width=16, limit=8192).  The dump is the sequence of its     *)
(* lines, each a text.                                                    *)
(* ---------------------------------------------------------------------- *)

HexWidth == 16

HexLimit == 8192

\* One lower-case hexadecimal digit as a character.
HexDigit(n) == IF n < 10 THEN 48 + n ELSE 87 + n

\* f"{c:02x}"
Hex2(c) == <<HexDigit(c \div 16), HexDigit(c % 16)>>

\* f"{i:08x}" (i < 16^8)
Hex8(i) == [j \in 1..8 |-> HexDigit((i \div (16 ^ (8 - j))) % 16)]

\* " ".join(f"{c:02x}" for c in chunk)
HexJoin(chunk) ==
  [j \in 1..(IF chunk = <<>> THEN 0 ELSE 3 * Len(chunk) - 1) |->
     IF j % 3 = 0 THEN 32 ELSE Hex2(chunk[(j + 2) \div 3])[j % 3]]

\* f"{hexs:<{n}}": hexs padded with spaces on the right to n characters
PadRight(hexs, n) ==
  IF Len(hexs) >= n THEN hexs
  ELSE hexs \o [j \in 1..(n - Len(hexs)) |-> 32]

\* "".join(chr(c) if 32 <= c < 127 else "." for c in chunk)
HexAscii(chunk) == [j \in 1..Len(chunk) |-> IF 32 <= chunk[j] /\ chunk[j] < 127
                                             THEN chunk[j] ELSE 46]

\* line 102: the line for the chunk that starts at offset i
HexLine(i, chunk, width) ==
  Hex8(i) \o <<32, 32>> \o PadRight(HexJoin(chunk), width * 3) \o <<32, 32>>
  \o HexAscii(chunk)

\* "… (truncated)"
TruncatedLine == <<8230, 32, 40, 116, 114, 117, 110, 99, 97, 116, 101, 100, 41>>

\* lines 96-102: b = b[:limit] and one line per chunk of width bytes
HexRows(b, width) ==
  [r \in 1..((Len(b) + width - 1) \div width) |->
     HexLine((r - 1) * width,
             SubSeq(b, (r - 1) * width + 1,
                    IF r * width < Len(b) THEN r * width ELSE Len(b)),
             width)]

Truncate(b, limit) == IF Len(b) > limit THEN SubSeq(b, 1, limit) ELSE b

\* lines 103-104: the marker is appended when len(b) == limit, b being the
\* truncated bytes
HexMarked(cut, width, limit) ==
  IF Len(cut) = limit THEN Append(HexRows(cut, width), TruncatedLine)
  ELSE HexRows(cut, width)

hexdump(b, width, limit) == HexMarked(Truncate(b, limit), width, limit)

(* ---------------------------------------------------------------------- *)
(* json.loads on a text.  The grammar modelled: whitespace, objects,      *)
(* arrays, strings with the one-character escapes, integers, true, false  *)
(* and null.  Texts the model feeds it hold no fraction or exponent, no   *)
(* \u escape and no NaN/Infinity literal.                                 *)
(* ---------------------------------------------------------------------- *)

At(s, i) == IF i >= 1 /\ i <= Len(s) THEN s[i] ELSE -1

\* JSON whitespace: space, \t, \n, \r
IsJsonWs(c) == c \in {32, 9, 10, 13}

IsDigit(c) == c >= 48 /\ c <= 57

RECURSIVE SkipWs(_, _)
SkipWs(s, i) == IF IsJsonWs(At(s, i)) THEN SkipWs(s, i + 1) ELSE i

PFail == [ok |-> FALSE, val |-> JNull, next |-> 0]

POk(val, next) == [ok |-> TRUE, val |-> val, next |-> next]

\* The character a one-character escape stands for, -1 when it is none.
Unescape(c) ==
  IF c = 34 THEN 34 ELSE IF c = 92 THEN 92 ELSE IF c = 47 THEN 47
  ELSE IF c = 98 THEN 8 ELSE IF c = 102 THEN 12 ELSE IF c = 110 THEN 10
  ELSE IF c = 114 THEN 13 ELSE IF c = 116 THEN 9 ELSE -1

RECURSIVE ScanString(_, _, _)
\* The string whose opening quote precedes position i: its text, and the
\* position after its closing quote.
ScanString(s, i, acc) ==
  LET c == At(s, i)
  IN IF c = -1 THEN PFail
     ELSE IF c = 34 THEN [ok |-> TRUE, val |-> JStr(acc), next |-> i + 1]
     ELSE IF c = 92 THEN
       IF Unescape(At(s, i + 1)) = -1 THEN PFail
       ELSE ScanString(s, i + 2, Append(acc, Unescape(At(s, i + 1))))
     ELSE IF c < 32 THEN PFail
     ELSE ScanString(s, i + 1, Append(acc, c))

RECURSIVE ScanDigits(_, _, _)
ScanDigits(s, i, n) ==
  IF IsDigit(At(s, i)) THEN ScanDigits(s, i + 1, 10 * n + (At(s, i) - 48))
  ELSE [n |-> n, next |-> i]

\* -?(0|[1-9][0-9]*) at position i
ScanNumber(s, i) ==
  LET neg == At(s, i) = 45
      j == IF neg THEN i + 1 ELSE i
  IN IF ~IsDigit(At(s, j)) THEN PFail
     ELSE IF At(s, j) = 48 THEN POk(JNum(0), j + 1)
     ELSE LET d == ScanDigits(s, j, 0)
          IN POk(JNum(IF neg THEN -d.n ELSE d.n), d.next)

Matches(s, i, word) ==
  /\ i + Len(word) - 1 <= Len(s)
  /\ \A k \in 1..Len(word) : s[i + k - 1] = word[k]

RECURSIVE ParseValue(_, _), ParseMembers(_, _, _), ParseElements(_, _, _)
\* One JSON value starting at position i (no leading whitespace).
ParseValue(s, i) ==
  LET c == At(s, i)
  IN IF c = 34 THEN ScanString(s, i + 1, <<>>)
     ELSE IF c = 123 THEN
       LET j == SkipWs(s, i + 1)
       IN IF At(s, j) = 125 THEN POk(JDict(<<>>), j + 1)
          ELSE ParseMembers(s, j, <<>>)
     ELSE IF c = 91 THEN
       LET j == SkipWs(s, i + 1)
       IN IF At(s, j) = 93 THEN POk(JList(<<>>), j + 1)
          ELSE ParseElements(s, j, <<>>)
     ELSE IF c = 45 \/ IsDigit(c) THEN ScanNumber(s, i)
     ELSE IF Matches(s, i, <<116, 114, 117, 101>>) THEN POk(JBool(TRUE), i + 4)
     ELSE IF Matches(s, i, <<102, 97, 108, 115, 101>>) THEN POk(JBool(FALSE), i + 5)
     ELSE IF Matches(s, i, <<110, 117, 108, 108>>) THEN POk(JNull, i + 4)
     ELSE PFail

\* The members of an object from the key expected at position i; acc holds
\* the pairs read so far (a repeated key keeps its last value).
ParseMembers(s, i, acc) ==
  IF At(s, i) /= 34 THEN PFail
  ELSE LET k == ScanString(s, i + 1, <<>>)
       IN IF ~k.ok THEN PFail
          ELSE LET j == SkipWs(s, k.next)
               IN IF At(s, j) /= 58 THEN PFail
                  ELSE LET v == ParseValue(s, SkipWs(s, j + 1))
                       IN IF ~v.ok THEN PFail
                          ELSE LET acc2 == [x \in DOMAIN acc \cup {k.val.v} |->
                                              IF x = k.val.v THEN v.val ELSE acc[x]]
                                   e == SkipWs(s, v.next)
                               IN IF At(s, e) = 125 THEN POk(JDict(acc2), e + 1)
                                  ELSE IF At(s, e) = 44
                                    THEN ParseMembers(s, SkipWs(s, e + 1), acc2)
                                  ELSE PFail

\* The elements of an array from the value expected at position i.
ParseElements(s, i, acc) ==
  LET v == ParseValue(s, i)
  IN IF ~v.ok THEN PFail
     ELSE LET e == SkipWs(s, v.next)
          IN IF At(s, e) = 93 THEN POk(JList(Append(acc, v.val)), e + 1)
             ELSE IF At(s, e) = 44
               THEN ParseElements(s, SkipWs(s, e + 1), Append(acc, v.val))
             ELSE PFail

JsonEnd(text, v) ==
  IF ~v.ok THEN PFail
  ELSE IF SkipWs(text, v.next) /= Len(text) + 1 THEN PFail
  ELSE v

\* json.loads(text): the value, or ok = FALSE for json.JSONDecodeError
\* (no value, or extra data after it).
json_loads(text) == JsonEnd(text, ParseValue(text, SkipWs(text, 1)))

(* ---------------------------------------------------------------------- *)
(* base64.b64decode(src, validate=True), bytes.decode, str.lstrip         *)
(* ---------------------------------------------------------------------- *)

\* The value of a character of the Base64 alphabet, -1 for any other.
Sextet(c) ==
  IF c >= 65 /\ c <= 90 THEN c - 65
  ELSE IF c >= 97 /\ c <= 122 THEN c - 71
  ELSE IF c >= 48 /\ c <= 57 THEN c + 4
  ELSE IF c = 43 THEN 62
  ELSE IF c = 47 THEN 63
  ELSE -1

\* The number of '=' characters (61) ending s, counted up to 3.
TrailingPads(s) ==
  IF Len(s) >= 1 /\ s[Len(s)] = 61 THEN
    IF Len(s) >= 2 /\ s[Len(s) - 1] = 61 THEN
      IF Len(s) >= 3 /\ s[Len(s) - 2] = 61 THEN 3 ELSE 2
    ELSE 1
  ELSE 0

RECURSIVE DecodeQuads(_, _, _)
\* The bytes of the data characters s[i..], `pads` of the last quad missing.
DecodeQuads(s, i, acc) ==
  IF i > Len(s) THEN acc
  ELSE LET a == Sextet(s[i])
           b == Sextet(s[i + 1])
           c == IF i + 2 <= Len(s) THEN Sextet(s[i + 2]) ELSE 0
           d == IF i + 3 <= Len(s) THEN Sextet(s[i + 3]) ELSE 0
           n == ((a * 64 + b) * 64 + c) * 64 + d
           b1 == n \div 65536
           b2 == (n \div 256) % 256
           b3 == n % 256
       IN IF i + 3 <= Len(s) THEN DecodeQuads(s, i + 4, acc \o <<b1, b2, b3>>)
          ELSE IF i + 2 <= Len(s) THEN acc \o <<b1, b2>>
          ELSE acc \o <<b1>>

RECURSIVE KeepAlphabet(_)
KeepAlphabet(s) ==
  IF s = <<>> THEN <<>>
  ELSE IF Sextet(Head(s)) = -1 THEN KeepAlphabet(Tail(s))
  ELSE <<Head(s)>> \o KeepAlphabet(Tail(s))

\* base64.b64decode(src) without validate=True: characters outside the
\* alphabet are discarded instead of raising.
b64decode_lenient(src) ==
  IF Len(KeepAlphabet(src)) % 4 = 1 THEN [ok |-> FALSE, raw |-> <<>>]
  ELSE [ok |-> TRUE, raw |-> DecodeQuads(KeepAlphabet(src), 1, <<>>)]

\* base64.b64decode(src, validate=True): ok = FALSE when it raises (a
\* character outside the alphabet, or padding that does not complete the
\* last quad).  Strings with more '=' than the last quad needs, which
\* Python versions treat differently, are rejected here and are not among
\* the model's inputs.
b64decode(src) ==
  LET k == TrailingPads(src)
      data == SubSeq(src, 1, Len(src) - k)
  IN IF k > 2 THEN [ok |-> FALSE, raw |-> <<>>]
     ELSE IF \E j \in 1..Len(data) : Sextet(data[j]) = -1
       THEN [ok |-> FALSE, raw |-> <<>>]
     ELSE IF (Len(data) + k) % 4 /= 0 THEN [ok |-> FALSE, raw |-> <<>>]
     ELSE IF Len(data) % 4 = 1 THEN [ok |-> FALSE, raw |-> <<>>]
     ELSE [ok |-> TRUE, raw |-> DecodeQuads(data, 1, <<>>)]

IsCont(b) == b >= 128 /\ b <= 191

\* raw.decode("latin-1") where the code decodes UTF-8: every byte is taken
\* for a code point.
utf8_decode_bytewise(raw, i, acc) == [ok |-> TRUE, text |-> raw]

RECURSIVE utf8_decode(_, _, _)
\* raw.decode("utf-8"): the code points of raw[i..], ok = FALSE for
\* UnicodeDecodeError (overlong forms, surrogates, values past U+10FFFF and
\* stray or missing continuation bytes are all errors).
utf8_decode(raw, i, acc) ==
  IF i > Len(raw) THEN [ok |-> TRUE, text |-> acc]
  ELSE LET b0 == raw[i]
           b1 == At(raw, i + 1)
           b2 == At(raw, i + 2)
           b3 == At(raw, i + 3)
           bad == [ok |-> FALSE, text |-> <<>>]
       IN IF b0 < 128 THEN utf8_decode(raw, i + 1, Append(acc, b0))
          ELSE IF b0 >= 194 /\ b0 <= 223 THEN
            IF IsCont(b1)
            THEN utf8_decode(raw, i + 2, Append(acc, (b0 - 192) * 64 + (b1 - 128)))
            ELSE bad
          ELSE IF b0 >= 224 /\ b0 <= 239 THEN
            IF /\ IsCont(b1) /\ IsCont(b2)
               /\ (b0 = 224 => b1 >= 160)
               /\ (b0 = 237 => b1 <= 159)
            THEN utf8_decode(raw, i + 3,
                   Append(acc, ((b0 - 224) * 64 + (b1 - 128)) * 64 + (b2 - 128)))
            ELSE bad
          ELSE IF b0 >= 240 /\ b0 <= 244 THEN
            IF /\ IsCont(b1) /\ IsCont(b2) /\ IsCont(b3)
               /\ (b0 = 240 => b1 >= 144)
               /\ (b0 = 244 => b1 <= 143)
            THEN utf8_decode(raw, i + 4,
                   Append(acc, (((b0 - 240) * 64 + (b1 - 128)) * 64 + (b2 - 128)) * 64
                               + (b3 - 128)))
            ELSE bad
          ELSE bad

\* raw.decode("latin-1", errors="ignore"): every byte is its own code point.
latin1_decode(raw) == raw

\* The characters str.lstrip() removes.
IsPyWhitespace(c) ==
  \/ c \in {9, 10, 11, 12, 13, 28, 29, 30, 31, 32, 133, 160, 5760}
  \/ (c >= 8192 /\ c <= 8202)
  \/ c \in {8232, 8233, 8239, 8287, 12288}

RECURSIVE lstrip(_)
lstrip(text) ==
  IF text /= <<>> /\ IsPyWhitespace(Head(text)) THEN lstrip(Tail(text)) ELSE text

\* text.startswith(ch) for a one-character ch
startswith(text, ch) == text /= <<>> /\ Head(text) = ch

Base64Result(text_ok, text, raw) ==
  IF text_ok
  THEN [none |-> FALSE, has_text |-> TRUE, decoded_text |-> text,
        replacement_value |-> text]
  ELSE [none |-> FALSE, has_text |-> FALSE, decoded_text |-> <<>>,
        replacement_value |-> latin1_decode(raw)]

NoResult ==
  [none |-> TRUE, has_text |-> FALSE, decoded_text |-> <<>>, replacement_value |-> <<>>]

DecodedResult(d) ==
  IF ~d.ok THEN NoResult
  ELSE Base64Result(utf8_decode(d.raw, 1, <<>>).ok, utf8_decode(d.raw, 1, <<>>).text, d.raw)

\* Base64DecodeScreen.on_mount: self._result.  none = TRUE is _result left
\* None with the Replace button hidden (the decode raised); otherwise
\* has_text tells decoded_text from None, and replacement_value is the text
\* proposed.
Base64OnMount(src) == DecodedResult(b64decode(src))

LooksLikeJson(stripped) == startswith(stripped, 123) \/ startswith(stripped, 91)

\* handle_base64 without the json.loads upgrade: the text is always written.
PromoteParsed_never(result, looks, parsed) == JStr(result.replacement_value)

\* lines 412-421: replacement = parsed when the text looks like JSON and parses
PromoteParsed(result, looks, parsed) ==
  IF result.has_text /\ looks /\ parsed.ok THEN parsed.val
  ELSE JStr(result.replacement_value)

\* handle_base64: the value written for an accepted result.
Base64Replacement(result) ==
  PromoteParsed(result, LooksLikeJson(lstrip(result.decoded_text)),
                json_loads(result.decoded_text))

\* _edit_leaf without the isinstance(old, str) test: the text is always parsed.
ParsedOrRaw_always_parse(old, edited, parsed) ==
  IF parsed.ok THEN parsed.val ELSE JStr(edited)

\* lines 491-497
ParsedOrRaw(old, edited, parsed) ==
  IF old.t = "str" THEN JStr(edited)
  ELSE IF parsed.ok THEN parsed.val
  ELSE JStr(edited)

\* _edit_leaf: the value written for the text the editor returned.
EditReplacement(old, edited) == ParsedOrRaw(old, edited, json_loads(edited))

(* ---------------------------------------------------------------------- *)
(* The tree: Tree.Node objects carrying a NodeMeta.  A node is a record   *)
(* [path, kind, loaded, expanded, allow_expand, children, label]; it is   *)
(* identified by its position, the sequence of child indices from the     *)
(* root, which is independent of the path its NodeMeta stores.            *)
(* ---------------------------------------------------------------------- *)

\* A node's label: the key or index it is shown under, and whether the
\* "(...)" of a leaf follows it.
Label(step, dots) == [step |-> step, dots |-> dots]

\* The root is labelled with --title, "JSON" by default.
RootLabel == Label(Key(<<74, 83, 79, 78>>), FALSE)

MkNode(path, kind, loaded, allow, label) ==
  [path |-> path, kind |-> kind, loaded |-> loaded, expanded |-> FALSE,
   allow_expand |-> allow, children |-> <<>>, label |-> label]

RECURSIVE NodeAt(_, _)
NodeAt(node, pos) ==
  IF pos = <<>> THEN node ELSE NodeAt(node.children[Head(pos)], Tail(pos))

RECURSIVE UpdateAt(_, _, _)
UpdateAt(node, pos, new) ==
  IF pos = <<>> THEN new
  ELSE [node EXCEPT !.children[Head(pos)] = UpdateAt(@, Tail(pos), new)]

RECURSIVE AllPos(_)
\* The positions of every node attached to the tree under `node`.
AllPos(node) ==
  {<<>>} \cup UNION {{<<i>> \o q : q \in AllPos(node.children[i])} :
                       i \in 1..Len(node.children)}

RECURSIVE VisiblePos(_)
\* The positions the cursor can be on: the root and, under every expanded
\* node, its children.
VisiblePos(node) ==
  {<<>>} \cup (IF node.expanded
               THEN UNION {{<<i>> \o q : q \in VisiblePos(node.children[i])} :
                             i \in 1..Len(node.children)}
               ELSE {})

RECURSIVE LexLess(_, _)
\* a < b as Python orders str: by code point, a proper prefix first.
LexLess(a, b) ==
  IF b = <<>> THEN FALSE
  ELSE IF a = <<>> THEN TRUE
  ELSE IF Head(a) /= Head(b) THEN Head(a) < Head(b)
  ELSE LexLess(Tail(a), Tail(b))

RECURSIVE SortedKeys_descending(_)
\* sorted(value.keys(), key=str, reverse=True)
SortedKeys_descending(keys) ==
  IF keys = {} THEN <<>>
  ELSE LET m == CHOOSE x \in keys : \A y \in keys \ {x} : LexLess(y, x)
       IN <<m>> \o SortedKeys_descending(keys \ {m})

RECURSIVE SortedKeys(_)
\* sorted(value.keys(), key=str)
SortedKeys(keys) ==
  IF keys = {} THEN <<>>
  ELSE LET m == CHOOSE x \in keys : \A y \in keys \ {x} : LexLess(x, y)
       IN <<m>> \o SortedKeys(keys \ {m})

\* _populate_children without child.allow_expand = False for a leaf child.
ChildNode_expandable_leaf(child_path, v) ==
  IF is_leaf(v) THEN MkNode(child_path, "leaf", TRUE, TRUE, Label(Last(child_path), TRUE))
  ELSE MkNode(child_path, KindOf(v), FALSE, TRUE, Label(Last(child_path), FALSE))

\* The child node _populate_children adds for the value v at child_path.
ChildNode(child_path, v) ==
  IF is_leaf(v) THEN MkNode(child_path, "leaf", TRUE, FALSE, Label(Last(child_path), TRUE))
  ELSE MkNode(child_path, KindOf(v), FALSE, TRUE, Label(Last(child_path), FALSE))

\* _populate_children without node.remove_children(): the children are
\* added after the ones the node has.
populate_children_keeping(node, doc) ==
  LET r == get_by_path(doc, node.path)
      value == r.val
      keys == SortedKeys(DOMAIN value.v)
      kids == IF value.t = "dict"
              THEN [j \in 1..Len(keys) |->
                      ChildNode(Append(node.path, Key(keys[j])), value.v[keys[j]])]
              ELSE IF value.t = "list"
              THEN [j \in 1..Len(value.v) |->
                      ChildNode(Append(node.path, Idx(j - 1)), value.v[j])]
              ELSE <<>>
  IN IF r.err /= "none" THEN [err |-> r.err, node |-> node]
     ELSE [err |-> "none",
           node |-> [node EXCEPT !.children = node.children \o kids, !.loaded = TRUE]]

\* _populate_children(node): the node afterwards, or the exception
\* get_by_path raised.
populate_children(node, doc) ==
  LET r == get_by_path(doc, node.path)
      value == r.val
      keys == SortedKeys(DOMAIN value.v)
      kids == IF value.t = "dict"
              THEN [j \in 1..Len(keys) |->
                      ChildNode(Append(node.path, Key(keys[j])), value.v[keys[j]])]
              ELSE IF value.t = "list"
              THEN [j \in 1..Len(value.v) |->
                      ChildNode(Append(node.path, Idx(j - 1)), value.v[j])]
              ELSE <<>>
  IN IF r.err /= "none" THEN [err |-> r.err, node |-> node]
     ELSE [err |-> "none",
           node |-> [node EXCEPT !.children = kids, !.loaded = TRUE]]

RECURSIVE FindDFS(_, _, _)
FindDFS(root, stack, path) ==
  IF stack = <<>> THEN [found |-> FALSE, pos |-> <<>>]
  ELSE LET pos == Last(stack)
           node == NodeAt(root, pos)
       IN IF node.path = path THEN [found |-> TRUE, pos |-> pos]
          ELSE FindDFS(root,
                       Front(stack) \o [j \in 1..Len(node.children) |-> Append(pos, j)],
                       path)

\* _find_node_by_path(path): the position of the node found, or found = FALSE.
find_node_by_path(root, path) == FindDFS(root, <<<<>>>>, path)

\* on_tree_node_expanded without the `not meta.loaded` test: every expand
\* populates the node.
expand_node_always(node, doc) ==
  IF node.kind \in {"dict", "list"}
  THEN populate_children([node EXCEPT !.expanded = TRUE], doc)
  ELSE [err |-> "none", node |-> [node EXCEPT !.expanded = TRUE]]

\* on_tree_node_expanded after node.expand(): the node is expanded and, when
\* it is a branch that is not loaded, populated.
expand_node(node, doc) ==
  LET e == [node EXCEPT !.expanded = TRUE]
  IN IF node.kind \in {"dict", "list"} /\ ~node.loaded
     THEN populate_children(e, doc)
     ELSE [err |-> "none", node |-> e]

\* _refresh_tree_after_value_change(path) for the root path.
refresh_root(root, doc) ==
  LET kind == KindOf(doc)
      n1 == [root EXCEPT !.kind = kind, !.allow_expand = kind \in {"dict", "list"},
                         !.children = <<>>]
      pr == populate_children([n1 EXCEPT !.loaded = FALSE], doc)
  IN IF kind \in {"dict", "list"}
     THEN [err |-> pr.err, tree |-> [pr.node EXCEPT !.expanded = TRUE], done |-> TRUE]
     ELSE [err |-> "none", tree |-> [n1 EXCEPT !.loaded = TRUE], done |-> TRUE]

Refreshed(err, t, done) == [err |-> err, tree |-> t, done |-> done]

\* The refresh without new_node.expand(): the new node is populated and
\* left collapsed.
RefreshNewNode_collapsed(t2, pos, np) ==
  IF np.err /= "none" THEN Refreshed(np.err, t2, TRUE)
  ELSE Refreshed("none", UpdateAt(t2, pos, np.node), TRUE)

\* lines 479-482: new_meta.loaded = False; populate; new_node.expand()
RefreshNewNode(t2, pos, np) ==
  IF np.err /= "none" THEN Refreshed(np.err, t2, TRUE)
  ELSE Refreshed("none", UpdateAt(t2, pos, [np.node EXCEPT !.expanded = TRUE]), TRUE)

\* lines 477-478: new_node = self._find_node_by_path(path)
RefreshFound(doc, t2, new) ==
  IF ~new.found THEN Refreshed("none", t2, TRUE)
  ELSE RefreshNewNode(t2, new.pos,
         populate_children([NodeAt(t2, new.pos) EXCEPT !.loaded = FALSE], doc))

\* lines 473-476: the parent repopulated (pp) and, for a branch, expanded
RefreshParent(root, doc, path, is_branch, ppos, pp) ==
  IF pp.err /= "none" THEN Refreshed(pp.err, root, FALSE)
  ELSE IF ~is_branch THEN Refreshed("none", UpdateAt(root, ppos, pp.node), TRUE)
  ELSE RefreshFound(doc, UpdateAt(root, ppos, [pp.node EXCEPT !.expanded = TRUE]),
         find_node_by_path(UpdateAt(root, ppos, [pp.node EXCEPT !.expanded = TRUE]), path))

\* lines 443-472: nv is the new value read, parent the node found for
\* path[:-1]
RefreshWith(root, doc, path, nv, parent) ==
  IF nv.err /= "none" THEN Refreshed(nv.err, root, FALSE)
  ELSE IF path = <<>> THEN refresh_root(root, doc)
  ELSE IF ~parent.found THEN Refreshed("none", root, FALSE)
  ELSE IF NodeAt(root, parent.pos).kind \notin {"dict", "list"}
    THEN Refreshed("none", root, FALSE)
  ELSE RefreshParent(root, doc, path, nv.val.t \in {"dict", "list"}, parent.pos,
         populate_children([NodeAt(root, parent.pos) EXCEPT !.loaded = FALSE], doc))

\* _refresh_tree_after_value_change(path): the tree afterwards, the
\* exception raised if any, and done = FALSE when it returned early without
\* touching the tree.
refresh_tree_after_value_change(root, doc, path) ==
  RefreshWith(root, doc, path, get_by_path(doc, path),
              find_node_by_path(root, Front(path)))

(* ---------------------------------------------------------------------- *)
(* State                                                                  *)
(* ---------------------------------------------------------------------- *)

VARIABLES
  data,     \* JSONTreeApp.data: the document
  tree,     \* the Tree widget's root node with everything attached to it
  pc,       \* the screen on top: "tree", "menu", "b64" or "viewer"
  target,   \* position of the node the open menu or dialog was opened for
  viewer,   \* what the open ValueViewer shows
  result,   \* Base64DecodeScreen._result of the open dialog
  crashed,  \* the exception that left a handler uncaught ("none": running)
  intent,   \* history: the user intent the latest step handled
  last,     \* history: what the handler of the latest step did
  probe     \* outcome of the latest call probed (accessor and decoder specifications)

vars == <<data, tree, pc, target, viewer, result, crashed, intent, last, probe>>

\* Leaf writes are offered for nodes whose path is at most this long.
MaxDepth == 2

\* Texts, as code points.
TextObjA == <<123, 34, 97, 34, 58, 49, 125>>                  \* {"a":1}

TextHello == <<104, 101, 108, 108, 111, 32, 119, 111, 114, 108, 100>>  \* hello world

TextB64ObjA == <<101, 121, 74, 104, 73, 106, 111, 120, 102, 81, 61, 61>>  \* eyJhIjoxfQ==

TextBang == <<33, 33, 33>>                                    \* !!!

TextB64Brace == <<101, 51, 103, 61>>                          \* e3g=  ({x)

TextB64Bin == <<47, 119, 61, 61>>                             \* /w==  (byte ff)

\* What open_in_editor can do: return None (no editor found, or the editor
\* exited non-zero), return the file's text, or raise: subprocess.run raises
\* PermissionError, which is not the FileNotFoundError line 119 catches,
\* when $EDITOR names a file that cannot be executed, and f.read() raises
\* UnicodeDecodeError when the editor saved bytes that are not UTF-8.
EditorResults ==
  {[cancelled |-> TRUE, text |-> <<>>, raised |-> "none"]}
  \cup {[cancelled |-> FALSE, text |-> t, raised |-> "none"] :
          t \in {TextObjA, TextHello, TextB64ObjA}}
  \cup {[cancelled |-> FALSE, text |-> <<>>, raised |-> e] :
          e \in {"PermissionError", "UnicodeDecodeError"}}

\* The documents read at startup.
InitDocs ==
  { JDict((<<97>> :> JNum(42)) @@ (<<98>> :> JStr(TextB64ObjA))),
    JDict((<<107>> :> JDict(<<120>> :> JNum(1))) @@ (<<109>> :> JStr(TextB64Brace))),
    JList(<<JStr(TextB64Bin), JList(<<JStr(TextBang)>>)>>),
    JNum(42),
    JStr(TextB64ObjA) }

NoEdit == [cancelled |-> TRUE, text |-> <<>>, raised |-> "none"]

\* What a handler did: the operation, the path of the node it was for, the
\* value it read there, what the editor returned, the replacement it handed
\* to set_by_path, the exception set_by_path raised ("none": it returned,
\* "": it was not called) and whether the refresh rebuilt the parent.
Step(op, path, old, ed, new, err, done) ==
  [op |-> op, path |-> path, old |-> old, ed |-> ed, new |-> new,
   err |-> err, done |-> done]

Note(op, path) == Step(op, path, JNull, NoEdit, JNull, "", FALSE)

NoProbe == [op |-> "none", path |-> <<>>, err |-> "", val |-> JNull, written |-> FALSE]

\* JSONTreeApp.__init__ and on_mount
Init ==
  /\ data \in InitDocs
  /\ tree = MkNode(<<>>, KindOf(data), FALSE, KindOf(data) \in {"dict", "list"}, RootLabel)
  /\ pc = "tree"
  /\ target = <<>>
  /\ viewer = ""
  /\ result = NoResult
  /\ crashed = "none"
  /\ intent = "start"
  /\ last = Note("init", <<>>)
  /\ probe = NoProbe

Running == crashed = "none"

\* An uncaught exception e in a handler.
Crash(op, path, e) ==
  /\ crashed' = e
  /\ last' = Note(op, path)
  /\ UNCHANGED <<data, tree, pc, target, viewer, result, probe>>

\* push_screen(ValueViewer(...)) from the tree or as a dialog is dismissed
ShowViewer(what) ==
  /\ pc' = "viewer"
  /\ viewer' = what
  /\ target' = <<>>
  /\ result' = NoResult

BackToTree ==
  /\ pc' = "tree"
  /\ viewer' = ""
  /\ target' = <<>>
  /\ result' = NoResult

\* _open_ops_for_node(node)
OpenOps(pos) ==
  /\ pc' = "menu"
  /\ target' = pos
  /\ last' = Note("menu", NodeAt(tree, pos).path)
  /\ UNCHANGED <<data, tree, viewer, result, crashed, probe>>

\* _display_leaf(node)
display_leaf(pos) ==
  LET path == NodeAt(tree, pos).path
      r == get_by_path(data, path)
  IN IF r.err /= "none" THEN Crash("display", path, r.err)
     ELSE /\ ShowViewer("value")
          /\ last' = Step("display", path, r.val, NoEdit, JNull, "", FALSE)
          /\ UNCHANGED <<data, tree, crashed, probe>>

\* _b64_leaf(node), up to the dialog being shown
b64_leaf(pos) ==
  LET path == NodeAt(tree, pos).path
      r == get_by_path(data, path)
  IN IF r.err /= "none" THEN Crash("b64", path, r.err)
     ELSE IF r.val.t /= "str"
       THEN /\ ShowViewer("not_string")
            /\ last' = Step("b64", path, r.val, NoEdit, JNull, "", FALSE)
            /\ UNCHANGED <<data, tree, crashed, probe>>
     ELSE /\ pc' = "b64"
          /\ target' = pos
          /\ result' = Base64OnMount(r.val.v)
          /\ viewer' = ""
          /\ last' = Step("b64", path, r.val, NoEdit, JNull, "", FALSE)
          /\ UNCHANGED <<data, tree, crashed, probe>>

\* lines 427: the refresh after a successful write
ReplaceRefreshed(path, old, replacement, doc, rf) ==
  IF rf.err /= "none"
  THEN /\ data' = doc
       /\ crashed' = rf.err
       /\ last' = Step("replace", path, old, NoEdit, replacement, "none", FALSE)
       /\ UNCHANGED <<tree, pc, target, viewer, result, probe>>
  ELSE /\ data' = doc
       /\ tree' = rf.tree
       /\ BackToTree
       /\ last' = Step("replace", path, old, NoEdit, replacement, "none", rf.done)
       /\ UNCHANGED <<crashed, probe>>

\* lines 422-427: w is what set_by_path did
ReplaceWritten(path, old, replacement, w) ==
  IF w.err /= "none"
  THEN /\ ShowViewer("error")
       /\ last' = Step("replace", path, old, NoEdit, replacement, w.err, FALSE)
       /\ UNCHANGED <<data, tree, crashed, probe>>
  ELSE ReplaceRefreshed(path, old, replacement, w.data,
         refresh_tree_after_value_change(tree, w.data, path))

ReplaceWith(path, old, replacement) ==
  ReplaceWritten(path, old, replacement, set_by_path(data, path, replacement))

\* handle_base64(result): the callback run when the dialog is dismissed
handle_base64(pos, res) ==
  IF res.none
  THEN /\ BackToTree
       /\ last' = Note("close", NodeAt(tree, pos).path)
       /\ UNCHANGED <<data, tree, crashed, probe>>
  ELSE ReplaceWith(NodeAt(tree, pos).path,
                   get_by_path(data, NodeAt(tree, pos).path).val,
                   Base64Replacement(res))

\* lines 498-501: w is what set_by_path did
EditWritten(path, old, ed, new_value, w) ==
  IF w.err /= "none"
  THEN /\ ShowViewer("error")
       /\ last' = Step("edit", path, old, ed, new_value, w.err, FALSE)
       /\ UNCHANGED <<data, tree, crashed, probe>>
  ELSE /\ data' = w.data
       /\ BackToTree
       /\ last' = Step("edit", path, old, ed, new_value, "none", FALSE)
       /\ UNCHANGED <<tree, crashed, probe>>

EditWith(path, old, ed, new_value) ==
  EditWritten(path, old, ed, new_value, set_by_path(data, path, new_value))

\* _edit_leaf with `if edited is None: return` left out: None is taken for
\* the empty text.
EditRead_ignoring_cancel(path, r, ed) ==
  IF r.err /= "none" THEN Crash("edit", path, r.err)
  ELSE IF ed.raised /= "none" THEN Crash("edit", path, ed.raised)
  ELSE EditWith(path, r.val, ed, EditReplacement(r.val, ed.text))

\* lines 486-497: r is what get_by_path did, ed what open_in_editor returned
EditRead(path, r, ed) ==
  IF r.err /= "none" THEN Crash("edit", path, r.err)
  ELSE IF ed.raised /= "none" THEN Crash("edit", path, ed.raised)
  ELSE IF ed.cancelled
    THEN /\ BackToTree
         /\ last' = Step("edit", path, r.val, ed, JNull, "", FALSE)
         /\ UNCHANGED <<data, tree, crashed, probe>>
  ELSE EditWith(path, r.val, ed, EditReplacement(r.val, ed.text))

\* _edit_leaf(node), with ed what open_in_editor returned
edit_leaf(pos, ed) ==
  EditRead(NodeAt(tree, pos).path, get_by_path(data, NodeAt(tree, pos).path), ed)

(* ---------------------------------------------------------------------- *)
(* User intents                                                           *)
(* ---------------------------------------------------------------------- *)

\* on_tree_node_selected: Enter on the cursor node
SelectNode(pos) ==
  /\ Running /\ pc = "tree" /\ pos \in VisiblePos(tree)
  /\ intent' = "select"
  /\ LET node == NodeAt(tree, pos)
         e == expand_node(node, data)
     IN IF node.kind = "leaf" THEN OpenOps(pos)
        ELSE IF node.expanded
          THEN /\ tree' = UpdateAt(tree, pos, [node EXCEPT !.expanded = FALSE])
               /\ last' = Note("collapse", node.path)
               /\ UNCHANGED <<data, pc, target, viewer, result, crashed, probe>>
        ELSE IF e.err /= "none" THEN Crash("expand", node.path, e.err)
        ELSE /\ tree' = UpdateAt(tree, pos, e.node)
             /\ last' = Note("expand", node.path)
             /\ UNCHANGED <<data, pc, target, viewer, result, crashed, probe>>

\* on_tree_node_expanded: the widget expanded a node that allows it
ExpandNode(pos) ==
  /\ Running /\ pc = "tree" /\ pos \in VisiblePos(tree)
  /\ intent' = "expand"
  /\ LET node == NodeAt(tree, pos)
         e == expand_node(node, data)
     IN /\ node.allow_expand /\ ~node.expanded
        /\ IF e.err /= "none" THEN Crash("expand", node.path, e.err)
           ELSE /\ tree' = UpdateAt(tree, pos, e.node)
                /\ last' = Note("expand", node.path)
                /\ UNCHANGED <<data, pc, target, viewer, result, crashed, probe>>

\* action_ops_selected: key "o"
KeyOps(pos) ==
  /\ Running /\ pc = "tree" /\ pos \in VisiblePos(tree)
  /\ intent' = "ops"
  /\ NodeAt(tree, pos).kind = "leaf"
  /\ OpenOps(pos)

\* action_display_selected: key "d"
KeyDisplay(pos) ==
  /\ Running /\ pc = "tree" /\ pos \in VisiblePos(tree)
  /\ intent' = "display"
  /\ NodeAt(tree, pos).kind = "leaf"
  /\ display_leaf(pos)

\* action_edit_selected: key "e"
KeyEdit(pos, ed) ==
  /\ Running /\ pc = "tree" /\ pos \in VisiblePos(tree)
  /\ intent' = "edit"
  /\ NodeAt(tree, pos).kind = "leaf"
  /\ Len(NodeAt(tree, pos).path) <= MaxDepth
  /\ edit_leaf(pos, ed)

\* handle_choice("display")
MenuDisplay ==
  /\ Running /\ pc = "menu"
  /\ intent' = "display"
  /\ display_leaf(target)

\* handle_choice("b64")
MenuB64 ==
  /\ Running /\ pc = "menu"
  /\ intent' = "decode"
  /\ b64_leaf(target)

\* handle_choice("edit")
MenuEdit(ed) ==
  /\ Running /\ pc = "menu"
  /\ intent' = "edit"
  /\ Len(NodeAt(tree, target).path) <= MaxDepth
  /\ edit_leaf(target, ed)

\* handle_choice(None): Cancel or Esc
MenuCancel ==
  /\ Running /\ pc = "menu"
  /\ intent' = "cancel"
  /\ BackToTree
  /\ last' = Note("cancel", NodeAt(tree, target).path)
  /\ UNCHANGED <<data, tree, crashed, probe>>

\* Base64DecodeScreen.on_button_pressed("replace"): dismiss(self._result if
\* self._result else None).  (on_mount hides the button when the decode
\* failed; the handler is modelled for either case.)
B64Replace ==
  /\ Running /\ pc = "b64"
  /\ intent' = "replace"
  /\ handle_base64(target, result)

\* Base64DecodeScreen.on_button_pressed("close") / action_close: dismiss(None)
B64Close ==
  /\ Running /\ pc = "b64"
  /\ intent' = "close"
  /\ handle_base64(target, NoResult)

\* ValueViewer.on_button_pressed / action_close
ViewerClose ==
  /\ Running /\ pc = "viewer"
  /\ intent' = "close_viewer"
  /\ BackToTree
  /\ last' = Note("close_viewer", <<>>)
  /\ UNCHANGED <<data, tree, crashed, probe>>

Next ==
  \/ \E pos \in AllPos(tree) : SelectNode(pos)
  \/ \E pos \in AllPos(tree) : ExpandNode(pos)
  \/ \E pos \in AllPos(tree) : KeyOps(pos)
  \/ \E pos \in AllPos(tree) : KeyDisplay(pos)
  \/ \E pos \in AllPos(tree), ed \in EditorResults : KeyEdit(pos, ed)
  \/ MenuDisplay
  \/ MenuB64
  \/ \E ed \in EditorResults : MenuEdit(ed)
  \/ MenuCancel
  \/ B64Replace
  \/ B64Close
  \/ ViewerClose

Spec == Init /\ [][Next]_vars

(* ---------------------------------------------------------------------- *)
(* Properties                                                             *)
(* ---------------------------------------------------------------------- *)

\* The (path, kind) descriptors of a sequence of child nodes.
Descr(children) ==
  [j \in 1..Len(children) |-> [path |-> children[j].path, kind |-> children[j].kind]]

\* The descriptors of the children re-derived from document `doc` for `node`.
RederivedIn(node, doc) == Descr(populate_children(node, doc).node.children)

Rederived(node) == RederivedIn(node, data)

\* The latest step wrote into the document.
Wrote == last.op \in {"edit", "replace"} /\ last.err = "none"

\* The latest step was an edit whose editor returned text.
EditReturnedText == intent = "edit" /\ last.op = "edit" /\ ~last.ed.cancelled

\* The latest step was Replace pressed in a decode dialog that offered a
\* replacement.
ReplaceAccepted == intent = "replace" /\ last.op = "replace"

\* C1: in every reachable state every attached node's kind is the shape of
\* the value the document holds at the node's path.
KindReflectsValue ==
  \A pos \in AllPos(tree) :
    /\ get_by_path(data, NodeAt(tree, pos).path).err = "none"
    /\ NodeAt(tree, pos).kind = KindOf(get_by_path(data, NodeAt(tree, pos).path).val)

\* In tree t the node found for the parent of `path` is loaded and carries
\* exactly the children re-derived from document `doc`.
ParentFreshIn(t, doc, path) ==
  /\ find_node_by_path(t, Front(path)).found
  /\ NodeAt(t, find_node_by_path(t, Front(path)).pos).loaded
  /\ Descr(NodeAt(t, find_node_by_path(t, Front(path)).pos).children)
       = RederivedIn(NodeAt(t, find_node_by_path(t, Front(path)).pos), doc)

ParentFresh(path) == ParentFreshIn(tree, data, path)

\* The node found for `path` is a dict node with the single child path + ["a"].
IsObjectA(path) ==
  /\ find_node_by_path(tree, path).found
  /\ NodeAt(tree, find_node_by_path(tree, path).pos).kind = "dict"
  /\ Descr(NodeAt(tree, find_node_by_path(tree, path).pos).children)
       = <<[path |-> Append(path, Key(<<97>>)), kind |-> "leaf"]>>

\* C2: a leaf operation that wrote into the document at p has, when its
\* step is over, refreshed p: p's parent is re-materialized from the
\* current document; and editing 42 into {"a":1} leaves the node at p a
\* dict node with the one child p + ["a"].
WriteIsRefreshed ==
  /\ Wrote => (last.done /\ ParentFresh(last.path))
  /\ (Wrote /\ last.op = "edit" /\ last.old = JNum(42) /\ last.ed.text = TextObjA)
       => IsObjectA(last.path)

\* For every branch child of the node at ppos of tree `before` that was
\* loaded and whose path is not `path`: the node the tree `after` holds for
\* the same path is not loaded and has no children.
SiblingsDiscarded(before, after, ppos, path) ==
  \A j \in 1..Len(NodeAt(before, ppos).children) :
    LET sib == NodeAt(before, ppos).children[j]
    IN (sib.path /= path /\ sib.kind \in {"dict", "list"} /\ sib.loaded)
         => /\ find_node_by_path(after, sib.path).found
            /\ ~NodeAt(after, find_node_by_path(after, sib.path).pos).loaded
            /\ NodeAt(after, find_node_by_path(after, sib.path).pos).children = <<>>

\* C3: a step that accepts a replacement at a non-root path p (by decode or
\* by edit) leaves every previously materialized sibling subtree of p
\* unmaterialized with no children, and p's parent materialized with the
\* children re-derived from the document.
SiblingsCollapseOnWrite ==
  [][ (last'.op \in {"edit", "replace"} /\ last'.err = "none" /\ last'.path /= <<>>)
        => /\ find_node_by_path(tree, Front(last'.path)).found
           /\ SiblingsDiscarded(tree, tree',
                                find_node_by_path(tree, Front(last'.path)).pos,
                                last'.path)
           /\ ParentFreshIn(tree', data', last'.path) ]_vars

\* C4: in every reachable state the children attached to a materialized
\* node are exactly the children re-derived from the value the document
\* holds at the node's path (none when that value is a primitive).
ChildrenAreRederived ==
  \A pos \in AllPos(tree) :
    NodeAt(tree, pos).loaded
      => /\ get_by_path(data, NodeAt(tree, pos).path).err = "none"
         /\ Descr(NodeAt(tree, pos).children) = Rederived(NodeAt(tree, pos))

\* C5 (reached): a decode was accepted at the root of a primitive document.
RootReplaceAttempted ==
  ReplaceAccepted /\ last.path = <<>> /\ is_leaf(data) /\ viewer = "error"

\* C5: a write at the empty path fails and leaves the document as it was,
\* the failed attempt is shown in the error viewer, and a document that is a
\* primitive is never changed by any step.
RootWriteRejected ==
  /\ [](\A v \in {JNull, JNum(1), JDict(<<>>)} :
          /\ set_by_path(data, <<>>, v).err /= "none"
          /\ set_by_path(data, <<>>, v).data = data)
  /\ []((last.path = <<>> /\ (ReplaceAccepted \/ EditReturnedText))
          => /\ last.err \notin {"none", ""}
             /\ data = last.old
             /\ pc = "viewer" /\ viewer = "error")
  /\ [][is_leaf(data) => data' = data]_vars

\* The value the edit of `old` with the returned text must propose.
ExpectedEdit(old, text) ==
  IF old.t = "str" THEN JStr(text)
  ELSE IF json_loads(text).ok THEN json_loads(text).val
  ELSE JStr(text)

\* C7 (reached): a non-string leaf below the root was edited into text that
\* is not JSON.
EditFellBackToText ==
  /\ EditReturnedText /\ last.path /= <<>>
  /\ last.old.t /= "str" /\ ~json_loads(last.ed.text).ok
  /\ get_by_path(data, last.path).val = JStr(last.ed.text)

\* C7: an edit that returned text proposes the text verbatim when the old
\* value is a string, else the parsed text, else the raw text as a string;
\* below the root that value is what the document then holds (at the root
\* the write is refused and reported, C5).
EditReplacementValue ==
  EditReturnedText
    => /\ last.new = ExpectedEdit(last.old, last.ed.text)
       /\ (last.old.t = "str" => last.new = JStr(last.ed.text))
       /\ ((last.old = JNum(42) /\ last.ed.text = TextObjA)
             => last.new = JDict(<<97>> :> JNum(1)))
       /\ ((last.old = JNum(42) /\ last.ed.text = TextHello)
             => last.new = JStr(TextHello))
       /\ (last.path /= <<>>
             => /\ last.err = "none"
                /\ get_by_path(data, last.path) = Ok(last.new))
       /\ (last.path = <<>> => pc = "viewer" /\ viewer = "error")

\* The first character of text that str.lstrip() keeps is '{' or '['.
StartsStructured(text) ==
  \E j \in 1..Len(text) :
    /\ text[j] \in {123, 91}
    /\ \A h \in 1..(j - 1) : IsPyWhitespace(text[h])

\* C8 (reached): the decode of eyJhIjoxfQ== was accepted below the root and
\* the document holds the object {a: 1} there.
DecodedIntoObject ==
  /\ ReplaceAccepted /\ last.path /= <<>>
  /\ last.old = JStr(TextB64ObjA)
  /\ get_by_path(data, last.path).val = JDict(<<97>> :> JNum(1))

\* C8: accepting a decode whose UTF-8 text starts, after whitespace, with
\* '{' or '[' writes the parsed value when the text parses and the decoded
\* text when it does not, with no error shown (at the root the write is
\* refused and reported, C5).
DecodeReplacementValue ==
  (ReplaceAccepted /\ last.old.t = "str"
     /\ b64decode(last.old.v).ok
     /\ utf8_decode(b64decode(last.old.v).raw, 1, <<>>).ok
     /\ StartsStructured(utf8_decode(b64decode(last.old.v).raw, 1, <<>>).text))
    => /\ json_loads(utf8_decode(b64decode(last.old.v).raw, 1, <<>>).text).ok
            => last.new = json_loads(utf8_decode(b64decode(last.old.v).raw, 1, <<>>).text).val
       /\ ~json_loads(utf8_decode(b64decode(last.old.v).raw, 1, <<>>).text).ok
            => last.new = JStr(utf8_decode(b64decode(last.old.v).raw, 1, <<>>).text)
       /\ (last.old = JStr(TextB64ObjA) => last.new = JDict(<<97>> :> JNum(1)))
       /\ (last.old = JStr(TextB64Brace) => last.new = JStr(<<123, 120>>))
       /\ (last.path /= <<>>
             => /\ last.err = "none"
                /\ get_by_path(data, last.path) = Ok(last.new)
                /\ pc = "tree" /\ viewer = "")

\* Every character of text is in the Base64 alphabet or is '='.
OnlyBase64Chars(text) == \A j \in 1..Len(text) : Sextet(text[j]) /= -1 \/ text[j] = 61

\* C9 (reached): the decode dialog is open on the string !!! with no
\* replacement to offer.
DecodeFailedShown ==
  pc = "b64" /\ intent = "decode" /\ last.old = JStr(TextBang) /\ result.none

\* C9: decode on a value that is not a string shows the message and opens
\* no dialog; decode on a string that is not valid Base64 opens the dialog
\* with no replacement; and from either, whatever is done next, the
\* document and the tree stay as they are.
FailedDecodeChangesNothing ==
  /\ []((intent = "decode" /\ last.old.t /= "str")
          => pc = "viewer" /\ viewer = "not_string" /\ result.none)
  /\ []((intent = "decode" /\ last.old.t = "str"
           /\ (~OnlyBase64Chars(last.old.v) \/ Len(last.old.v) % 4 /= 0))
          => pc = "b64" /\ result.none)
  /\ []((intent = "decode" /\ last.old = JStr(TextBang)) => pc = "b64" /\ result.none)
  /\ [][(intent = "decode" /\ (pc = "viewer" \/ (pc = "b64" /\ result.none)))
          => (data' = data /\ tree' = tree /\ pc' = "tree")]_vars
  /\ [][intent' = "decode" => (data' = data /\ tree' = tree)]_vars

\* C10 (reached): the editor returned cancelled for an edit of a leaf.
EditWasCancelled ==
  intent = "edit" /\ last.ed.cancelled /\ pc = "tree" /\ crashed = "none"

\* C10: display, cancelling the menu, opening the decode dialog, closing it
\* without Replace, closing a viewer and an edit whose editor returned
\* cancelled leave the document and the tree as they are; a step of the
\* decode dialog changes them only when it is Replace.
ReadOnlyStepsChangeNothing ==
  /\ [][intent' \in {"display", "ops", "cancel", "decode", "close", "close_viewer"}
          => (data' = data /\ tree' = tree)]_vars
  /\ [][(intent' = "edit" /\ last'.ed.cancelled)
          => (data' = data /\ tree' = tree)]_vars
  /\ [][(pc = "b64" /\ (data' /= data \/ tree' /= tree)) => intent' = "replace"]_vars

\* A write that set_by_path refused is reported in the error viewer.
RefusedWriteShown ==
  (last.op \in {"edit", "replace"} /\ last.err \notin {"none", ""})
    => pc = "viewer" /\ viewer = "error"

\* The refresh after an accepted decode rebuilt the parent.
RefreshNotSkipped == (ReplaceAccepted /\ last.err = "none") => last.done

\* C13: no handler is left by an uncaught exception; a write that is
\* refused is reported in the viewer; and the refresh that follows an
\* accepted decode does not return before it has re-materialized the parent.
ErrorsAreRecovered ==
  /\ crashed = "none"
  /\ RefusedWriteShown
  /\ RefreshNotSkipped

(* ---------------------------------------------------------------------- *)
(* The accessors on their own: get_by_path and set_by_path applied to     *)
(* arbitrary paths of the startup documents.                              *)
(* ---------------------------------------------------------------------- *)

\* Probe paths have at most this many steps.
MaxProbeLen == 2

ProbeSteps == {Key(<<97>>), Idx(0), Idx(1), Idx(5)}

RECURSIVE PathsUpTo(_)
PathsUpTo(n) ==
  IF n = 0 THEN {<<>>}
  ELSE PathsUpTo(n - 1)
       \cup {Append(q, st) : q \in {x \in PathsUpTo(n - 1) : Len(x) = n - 1},
                             st \in ProbeSteps}

ProbeValues == {JNum(7), JList(<<JNum(1)>>)}

\* get_by_path(data, path) called on its own
ProbeResolve(path) ==
  /\ probe' = [op |-> "resolve", path |-> path,
               err |-> get_by_path(data, path).err,
               val |-> get_by_path(data, path).val,
               written |-> probe.written]
  /\ UNCHANGED <<data, tree, pc, target, viewer, result, crashed, intent, last>>

\* set_by_path(data, path, new_value) called on its own, once, on the
\* startup document
ProbeWrite(path, new_value) ==
  /\ ~probe.written
  /\ probe' = [op |-> "write", path |-> path,
               err |-> set_by_path(data, path, new_value).err,
               val |-> new_value,
               written |-> TRUE]
  /\ data' = set_by_path(data, path, new_value).data
  /\ UNCHANGED <<tree, pc, target, viewer, result, crashed, intent, last>>

\* set_by_path(data, path, get_by_path(data, path)) for a non-empty path
\* that get_by_path resolves
ProbeRoundTrip(path) ==
  /\ path /= <<>>
  /\ get_by_path(data, path).err = "none"
  /\ probe' = [op |-> "roundtrip", path |-> path,
               err |-> set_by_path(data, path, get_by_path(data, path).val).err,
               val |-> get_by_path(data, path).val,
               written |-> probe.written]
  /\ data' = set_by_path(data, path, get_by_path(data, path).val).data
  /\ UNCHANGED <<tree, pc, target, viewer, result, crashed, intent, last>>

NextAccessor ==
  \/ \E path \in PathsUpTo(MaxProbeLen) : ProbeResolve(path)
  \/ \E path \in PathsUpTo(MaxProbeLen), v \in ProbeValues : ProbeWrite(path, v)
  \/ \E path \in PathsUpTo(MaxProbeLen) : ProbeRoundTrip(path)

SpecAccessor == Init /\ [][NextAccessor]_vars

\* The container the last step of `path` is applied to is a list, and the
\* step is a string, or an index outside the list.
BadListStep(path) ==
  /\ path /= <<>>
  /\ get_by_path(data, Front(path)).err = "none"
  /\ get_by_path(data, Front(path)).val.t = "list"
  /\ \/ Last(path).k = "key"
     \/ Last(path).i >= Len(get_by_path(data, Front(path)).val.v)

\* C6: resolving a string step against a list, or an index outside a list,
\* fails with the one error kind that a refused root write fails with.
ListStepFailsWithAddressError ==
  (probe.op = "resolve" /\ BadListStep(probe.path))
    => /\ probe.err /= "none"
       /\ probe.err = set_by_path(data, <<>>, JNull).err

\* The descriptors (address, kind, label, expandability) of a node's children.
FullDescr(children) ==
  [j \in 1..Len(children) |->
     [path |-> children[j].path, kind |-> children[j].kind,
      label |-> children[j].label, allow_expand |-> children[j].allow_expand]]

\* Materializing `node` again from document `doc`, right after materializing
\* it, gives the child descriptors and the loaded flag of the first time.
SecondPopulateSame(node, doc) ==
  /\ populate_children(populate_children(node, doc).node, doc).err
       = populate_children(node, doc).err
  /\ FullDescr(populate_children(populate_children(node, doc).node, doc).node.children)
       = FullDescr(populate_children(node, doc).node.children)
  /\ populate_children(populate_children(node, doc).node, doc).node.loaded
       = populate_children(node, doc).node.loaded

\* C12 (reached): an attached node is materialized with a leaf child and a
\* branch child, and materializing it again from the same document would
\* give the same children.
MaterializedTwiceSame ==
  \E pos \in AllPos(tree) :
    /\ NodeAt(tree, pos).loaded
    /\ Len(NodeAt(tree, pos).children) = 2
    /\ \E j \in 1..2 : NodeAt(tree, pos).children[j].kind = "leaf"
    /\ \E j \in 1..2 : NodeAt(tree, pos).children[j].kind /= "leaf"
    /\ FullDescr(populate_children(NodeAt(tree, pos), data).node.children)
         = FullDescr(NodeAt(tree, pos).children)

\* C12: for every attached node and the current document, materializing
\* the node twice in a row gives the same child descriptors (address, kind,
\* label, expandability) and the same loaded flag as materializing it once.
PopulateIsIdempotent ==
  \A pos \in AllPos(tree) : SecondPopulateSame(NodeAt(tree, pos), data)

\* Between trees `before` and `after` some position keeps its path while
\* its loaded flag goes from TRUE to FALSE.
SomeNodeUnloaded(before, after) ==
  \E pos \in AllPos(before) \cap AllPos(after) :
    /\ NodeAt(before, pos).path = NodeAt(after, pos).path
    /\ NodeAt(before, pos).loaded
    /\ ~NodeAt(after, pos).loaded

\* Every node that is loaded in tree `before` is at its position in tree
\* `after`, loaded, with the same children descriptors.
LoadedNodesKept(before, after) ==
  \A pos \in AllPos(before) :
    NodeAt(before, pos).loaded
      => /\ pos \in AllPos(after)
         /\ NodeAt(after, pos).loaded
         /\ FullDescr(NodeAt(after, pos).children)
              = FullDescr(NodeAt(before, pos).children)

\* C15 (reached): the root was expanded again while one of its branch
\* children still holds the children it was given before the root was
\* collapsed.
ReExpandedWithChildren ==
  /\ intent \in {"select", "expand"} /\ last.op = "expand" /\ last.path = <<>>
  /\ tree.expanded
  /\ \E j \in 1..Len(tree.children) :
       /\ tree.children[j].kind /= "leaf"
       /\ tree.children[j].loaded
       /\ tree.children[j].children /= <<>>

\* C15: the loaded flag at a position goes from TRUE to FALSE only in a
\* step that accepted a decode, wrote it and refreshed; a select or expand
\* step leaves every loaded node loaded with the children it had; and the
\* node such a step expands, when it was not loaded, gets the children
\* derived from the document.
LoadedOnlyResetByRefresh ==
  /\ [][SomeNodeUnloaded(tree, tree')
          => (intent' = "replace" /\ last'.err = "none" /\ last'.done)]_vars
  /\ [][intent' \in {"select", "expand"}
          => (data' = data /\ LoadedNodesKept(tree, tree'))]_vars
  /\ [][(intent' \in {"select", "expand"} /\ last'.op = "expand")
          => \E pos \in AllPos(tree) :
               /\ NodeAt(tree, pos).path = last'.path
               /\ pos \in AllPos(tree')
               /\ NodeAt(tree', pos).expanded /\ NodeAt(tree', pos).loaded
               /\ ~NodeAt(tree, pos).loaded
                    => FullDescr(NodeAt(tree', pos).children)
                         = FullDescr(populate_children(NodeAt(tree, pos), data).node.children)]_vars

\* The number of children a node for `value` has when materialized.
ChildCount(value) ==
  IF value.t = "dict" THEN Cardinality(DOMAIN value.v)
  ELSE IF value.t = "list" THEN Len(value.v) ELSE 0

\* In tree t, for document doc: the node found for the parent of `path` is
\* loaded and expanded, and the node found for `path` is a branch node of
\* the kind of the value there, loaded, expanded, with one child per key or
\* index of the value.
BranchShownIn(t, doc, path) ==
  /\ find_node_by_path(t, Front(path)).found
  /\ NodeAt(t, find_node_by_path(t, Front(path)).pos).loaded
  /\ NodeAt(t, find_node_by_path(t, Front(path)).pos).expanded
  /\ find_node_by_path(t, path).found
  /\ NodeAt(t, find_node_by_path(t, path).pos).kind = KindOf(get_by_path(doc, path).val)
  /\ NodeAt(t, find_node_by_path(t, path).pos).kind \in {"dict", "list"}
  /\ NodeAt(t, find_node_by_path(t, path).pos).loaded
  /\ NodeAt(t, find_node_by_path(t, path).pos).expanded
  /\ Len(NodeAt(t, find_node_by_path(t, path).pos).children)
       = ChildCount(get_by_path(doc, path).val)
  /\ FullDescr(NodeAt(t, find_node_by_path(t, path).pos).children)
       = FullDescr(populate_children(NodeAt(t, find_node_by_path(t, path).pos), doc).node.children)

\* C16 (reached): a decode into the object {a: 1} was accepted two levels
\* below the root, and the node there is expanded with its one child.
DecodedBranchBrowsable ==
  /\ ReplaceAccepted /\ last.err = "none" /\ Len(last.path) = 2
  /\ last.new = JDict(<<97>> :> JNum(1))
  /\ find_node_by_path(tree, last.path).found
  /\ NodeAt(tree, find_node_by_path(tree, last.path).pos).expanded
  /\ Len(NodeAt(tree, find_node_by_path(tree, last.path).pos).children) = 1

\* C16: when the step that accepted a decode at a non-root path wrote an
\* object or array and ran the refresh, that same step leaves the parent
\* loaded and expanded and the node at the path a loaded, expanded branch
\* node with one child per key or index of the new value.
RefreshShowsNewBranch ==
  (ReplaceAccepted /\ last.err = "none" /\ last.path /= <<>> /\ ~is_leaf(last.new))
    => /\ last.done
       /\ get_by_path(data, last.path) = Ok(last.new)
       /\ BranchShownIn(tree, data, last.path)

\* Every node below the root is a child of a loaded branch node; a branch
\* node that is not loaded has no children; a leaf node has no children and
\* cannot be expanded.
LazyShape(t) ==
  \A pos \in AllPos(t) :
    /\ pos /= <<>>
         => /\ NodeAt(t, Front(pos)).loaded
            /\ NodeAt(t, Front(pos)).kind \in {"dict", "list"}
    /\ (NodeAt(t, pos).kind \in {"dict", "list"} /\ ~NodeAt(t, pos).loaded)
         => NodeAt(t, pos).children = <<>>
    /\ NodeAt(t, pos).kind = "leaf"
         => (NodeAt(t, pos).children = <<>> /\ ~NodeAt(t, pos).allow_expand)

\* C17 (reached): the tree holds a leaf two levels below the root and,
\* below the root too, a branch node that is not loaded.
DeepLeafAndUnloadedBranch ==
  \E pos \in AllPos(tree), q \in AllPos(tree) :
    /\ Len(pos) = 2 /\ NodeAt(tree, pos).kind = "leaf"
    /\ q /= <<>> /\ NodeAt(tree, q).kind /= "leaf" /\ ~NodeAt(tree, q).loaded
    /\ NodeAt(tree, q).children = <<>>

\* C17: at startup the tree is the root alone, not loaded, with the kind
\* of the document's shape; and in every reachable state the root has the
\* kind of the document's shape, every other node is a child of a loaded
\* branch node, a branch node that is not loaded has no children, and a
\* leaf node has no children and cannot be expanded.
TreeIsLazy ==
  /\ (tree.path = <<>> /\ ~tree.loaded /\ tree.children = <<>>
        /\ tree.kind = KindOf(data))
  /\ [](tree.path = <<>> /\ tree.kind = KindOf(data))
  /\ []LazyShape(tree)

\* The child node c is as specified for a child holding value v.
ChildAsSpecified(c, v) ==
  IF is_leaf(v) THEN c.kind = "leaf" /\ ~c.allow_expand /\ c.children = <<>>
  ELSE /\ c.kind = (IF v.t = "dict" THEN "dict" ELSE "list")
       /\ c.allow_expand /\ ~c.loaded /\ c.children = <<>>

\* The node m is what materializing a node at `path` must give when the
\* document holds `value` there.
MaterializedAs(m, path, value) ==
  /\ m.loaded
  /\ value.t = "dict"
       => /\ Len(m.children) = Cardinality(DOMAIN value.v)
          /\ \A j \in 1..Len(m.children) :
               /\ Len(m.children[j].path) = Len(path) + 1
               /\ Front(m.children[j].path) = path
               /\ Last(m.children[j].path).k = "key"
               /\ Last(m.children[j].path).s \in DOMAIN value.v
               /\ ChildAsSpecified(m.children[j], value.v[Last(m.children[j].path).s])
          /\ \A j \in 1..(Len(m.children) - 1) :
               LexLess(Last(m.children[j].path).s, Last(m.children[j + 1].path).s)
  /\ value.t = "list"
       => /\ Len(m.children) = Len(value.v)
          /\ \A j \in 1..Len(m.children) :
               /\ m.children[j].path = Append(path, Idx(j - 1))
               /\ ChildAsSpecified(m.children[j], value.v[j])
  /\ is_leaf(value) => m.children = <<>>

\* C18 (reached): the root of the document {k: {x: 1}, m: "e3g="} was
\* expanded and has the branch child k before the leaf child m.
ObjectRootMaterialized ==
  /\ intent \in {"select", "expand"} /\ last.op = "expand" /\ last.path = <<>>
  /\ tree.loaded /\ Len(tree.children) = 2
  /\ tree.children[1].path = <<Key(<<107>>)>> /\ tree.children[1].kind = "dict"
  /\ tree.children[1].allow_expand /\ ~tree.children[1].loaded
  /\ tree.children[2].path = <<Key(<<109>>)>> /\ tree.children[2].kind = "leaf"
  /\ ~tree.children[2].allow_expand

\* C18: materializing any attached node from the current document leaves
\* it loaded with, for an object, one child per key in ascending key order
\* at path + [key]; for an array, one child per index in index order at
\* path + [index]; each child a non-expandable leaf node when its value is
\* a primitive and an expandable, unloaded dict or list node otherwise; and
\* no children for a primitive.  An expand step that loads a node leaves it
\* so.
PopulateAsSpecified ==
  /\ [](\A pos \in AllPos(tree) :
          get_by_path(data, NodeAt(tree, pos).path).err = "none"
            => /\ populate_children(NodeAt(tree, pos), data).err = "none"
               /\ MaterializedAs(populate_children(NodeAt(tree, pos), data).node,
                                 NodeAt(tree, pos).path,
                                 get_by_path(data, NodeAt(tree, pos).path).val))
  /\ [][(intent' \in {"select", "expand"} /\ last'.op = "expand")
          => \E pos \in AllPos(tree) \cap AllPos(tree') :
               /\ NodeAt(tree, pos).path = last'.path
               /\ ~NodeAt(tree, pos).loaded
                    => MaterializedAs(NodeAt(tree', pos), last'.path,
                                      get_by_path(data', last'.path).val)]_vars

\* C20 (reached): an edit two levels below the root wrote a new value and
\* the tree holds at least four nodes.
DeepEditWritten ==
  /\ EditReturnedText /\ last.err = "none" /\ Len(last.path) = 2
  /\ get_by_path(data, last.path) = Ok(last.new)
  /\ last.new /= last.old
  /\ Cardinality(AllPos(tree)) >= 4

\* C20: in every reachable state the path of every attached node resolves
\* in the current document, no two attached nodes have the same path, and
\* looking a node up by its path finds that node.
AddressesResolveAndUnique ==
  /\ \A pos \in AllPos(tree) :
       /\ get_by_path(data, NodeAt(tree, pos).path).err = "none"
       /\ find_node_by_path(tree, NodeAt(tree, pos).path)
            = [found |-> TRUE, pos |-> pos]
  /\ \A pos \in AllPos(tree), q \in AllPos(tree) :
       NodeAt(tree, pos).path = NodeAt(tree, q).path => pos = q

\* C11 (reached): a two-step path was resolved and its value written back,
\* and the write returned.
NestedRoundTripDone ==
  probe.op = "roundtrip" /\ Len(probe.path) = 2 /\ probe.err = "none"

\* C11: writing back at a non-empty path the value just resolved there
\* leaves the document as it was (also when the write raises, as it does
\* for a path that indexes into a string), and the path still resolves to
\* the same value.
NoOpWriteKeepsDocument ==
  /\ [][probe'.op = "roundtrip" => data' = data]_vars
  /\ [](probe.op = "roundtrip" => get_by_path(data, probe.path) = Ok(probe.val))

(* ---------------------------------------------------------------------- *)
(* The decoders on their own: Base64DecodeScreen.on_mount applied to the  *)
(* Base64 encoding of a text, and hexdump applied to bytes.               *)
(* ---------------------------------------------------------------------- *)

\* Texts to encode have at most this many characters.
MaxTextLen == 2

\* Dumped inputs are up to this many bytes shorter or longer than the limit.
HexSlack == 1

\* '{', '[', space, newline, 'a', e-acute, the euro sign, an emoji: one to
\* four bytes each in UTF-8.
TextChars == {123, 91, 32, 10, 97, 233, 8364, 128512}

RECURSIVE TextsUpTo(_)
TextsUpTo(n) ==
  IF n = 0 THEN {<<>>}
  ELSE TextsUpTo(n - 1)
       \cup {Append(t, c) : t \in {x \in TextsUpTo(n - 1) : Len(x) = n - 1},
                            c \in TextChars}

\* The UTF-8 bytes of one code point (not a surrogate).
Utf8Of(c) ==
  IF c < 128 THEN <<c>>
  ELSE IF c < 2048 THEN <<192 + (c \div 64), 128 + (c % 64)>>
  ELSE IF c < 65536
    THEN <<224 + (c \div 4096), 128 + ((c \div 64) % 64), 128 + (c % 64)>>
  ELSE <<240 + (c \div 262144), 128 + ((c \div 4096) % 64),
         128 + ((c \div 64) % 64), 128 + (c % 64)>>

RECURSIVE Utf8Encode(_)
\* text.encode("utf-8")
Utf8Encode(text) ==
  IF text = <<>> THEN <<>> ELSE Utf8Of(Head(text)) \o Utf8Encode(Tail(text))

\* The Base64 character of a six-bit value.
B64Char(n) ==
  IF n < 26 THEN 65 + n ELSE IF n < 52 THEN 97 + (n - 26)
  ELSE IF n < 62 THEN 48 + (n - 52) ELSE IF n = 62 THEN 43 ELSE 47

RECURSIVE B64Encode(_)
\* base64.b64encode(raw), as text
B64Encode(raw) ==
  IF raw = <<>> THEN <<>>
  ELSE IF Len(raw) = 1
    THEN <<B64Char(raw[1] \div 4), B64Char((raw[1] % 4) * 16), 61, 61>>
  ELSE IF Len(raw) = 2
    THEN <<B64Char(raw[1] \div 4),
           B64Char(((raw[1] % 4) * 16) + (raw[2] \div 16)),
           B64Char((raw[2] % 16) * 4), 61>>
  ELSE <<B64Char(raw[1] \div 4),
         B64Char(((raw[1] % 4) * 16) + (raw[2] \div 16)),
         B64Char(((raw[2] % 16) * 4) + (raw[3] \div 64)),
         B64Char(raw[3] % 64)>>
       \o B64Encode(SubSeq(raw, 4, Len(raw)))

\* The lengths of the byte strings dumped: around one row and around the
\* limit.
HexLens ==
  {0, 1, HexWidth, HexWidth + 1}
  \cup ((HexLimit - HexSlack)..(HexLimit + HexSlack))

\* n bytes that start at `first` and count up.
HexBytes(n, first) == [j \in 1..n |-> ((first + j) - 1) % 256]

\* Base64DecodeScreen.on_mount for the leaf value base64(utf8(text))
ProbeDecode(text) ==
  /\ probe.op = "none"
  /\ probe' = [op |-> "decode", text |-> text,
               src |-> B64Encode(Utf8Encode(text)),
               out |-> Base64OnMount(B64Encode(Utf8Encode(text)))]
  /\ UNCHANGED <<data, tree, pc, target, viewer, result, crashed, intent, last>>

\* hexdump(b) for n bytes
ProbeHexdump(n, first) ==
  /\ probe.op = "none"
  /\ probe' = [op |-> "hexdump", n |-> n, first |-> first,
               out |-> hexdump(HexBytes(n, first), HexWidth, HexLimit)]
  /\ UNCHANGED <<data, tree, pc, target, viewer, result, crashed, intent, last>>

NextCodec ==
  \/ \E text \in TextsUpTo(MaxTextLen) : ProbeDecode(text)
  \/ \E n \in HexLens, first \in {0, 120} : ProbeHexdump(n, first)

SpecCodec == Init /\ [][NextCodec]_vars

\* C14 (reached): the text "{" followed by e-acute was encoded and decoded
\* back.
BraceTextDecoded ==
  /\ probe.op = "decode" /\ probe.text = <<123, 233>>
  /\ probe.src = <<101, 56, 79, 112>>
  /\ probe.out.decoded_text = <<123, 233>>

\* C14: the decode of the Base64 encoding of the UTF-8 bytes of a text
\* succeeds as text and its decoded_text is that text.
DecodeRoundTrip ==
  probe.op = "decode"
    => /\ ~probe.out.none
       /\ probe.out.has_text
       /\ probe.out.decoded_text = probe.text

\* The rows of a dump without its marker line.
DumpRows(out) ==
  IF out /= <<>> /\ Last(out) = TruncatedLine THEN Front(out) ELSE out

\* C19: the dump has one row for every 16 of the first 8192 bytes and no
\* more, and ends with the truncation marker exactly when the input is
\* longer than 8192 bytes.
HexdumpMarksTruncation ==
  probe.op = "hexdump"
    => /\ Len(DumpRows(probe.out))
            = ((IF probe.n > HexLimit THEN HexLimit ELSE probe.n) + HexWidth - 1)
                \div HexWidth
       /\ \A r \in 1..Len(DumpRows(probe.out)) :
            /\ Len(DumpRows(probe.out)[r]) <= 8 + 2 + 3 * HexWidth + 2 + HexWidth
            /\ SubSeq(DumpRows(probe.out)[r], 1, 8) = Hex8((r - 1) * HexWidth)
       /\ ((probe.out /= <<>> /\ Last(probe.out) = TruncatedLine)
             <=> probe.n > HexLimit)

====
